---- MODULE Spec2Model ----
(***************************************************************************)
(* Model of packages/indexer/src/jobs/metadata-index/process-queue-by-slug *)
(* The BullMQ worker that drains the pending-refresh-by-slug backlog,      *)
(* fetches token metadata per collection slug, and re-enqueues itself      *)
(* under a redis lock.                                                     *)
(***************************************************************************)
EXTENDS Integers, Sequences, FiniteSets, TLC

VARIABLES backlog, locks, queue, worker, orphans, env, faults

vars == <<backlog, locks, queue, worker, orphans, env, faults>>

(***************************************************************************)
(* Bounds of the model                                                     *)
(***************************************************************************)
\* events from outside the worker over one run of the system: requests
\* submitted and runs triggered
MaxEvents == 3
\* worker functions that throw over one run of the system
MaxFaults == 1
\* items in one page of metadata
MaxPage == 1
\* requests waiting in the backlog when a chain of runs starts
MaxBacklog == 4

(***************************************************************************)
(* Program constants                                                       *)
(***************************************************************************)
QUEUE_NAME == "metadata-index-process-queue-by-slug"
method == "opensea"
count == 1
maxParallelTokenCollectionSlugRefreshJobs == 2
countTotal == maxParallelTokenCollectionSlugRefreshJobs * count
attempts == 10
backoffDelay == 5000
lockSeconds == 60 * 5
minCooldown == 5
deniedContract == "0x0e3a2a1f2146d86a604adc220b4967a898d7fe07"

getLockName(m) == <<QUEUE_NAME, m>>

\* The worker processes (instances started with config.doBackgroundWork).
Procs == {"w1", "w2"}

None == "undefined"

(***************************************************************************)
(* RefreshTokenBySlug values                                               *)
(***************************************************************************)
RefreshTokenBySlug(s, ct, cl, cn) ==
  [slug |-> s, contract |-> ct, collection |-> cl, continuation |-> cn]

ReqA == RefreshTokenBySlug("boredapes", "0xbc4c", "0xbc4c:0:9999", None)
ReqD == RefreshTokenBySlug("denied", deniedContract, "0x0e3a:low", None)

\* Requests external producers submit.
NewRequests == {ReqA, ReqD}

(***************************************************************************)
(* Results of MetadataApi.getTokensMetadataBySlug                          *)
(***************************************************************************)
ExpiresIn == {2, 20, 30}
Continuations == {None, "abc"}

Result(k, n, cn, e) == [kind |-> k, n |-> n, continuation |-> cn, expires_in |-> e]
NoResult == Result("none", 0, None, 0)

Results ==
  {Result("ok", n, cn, 0) : n \in 0..MaxPage, cn \in Continuations}
    \cup {Result("429", 0, None, e) : e \in ExpiresIn}
    \cup {Result("error", 0, None, 0), Result("noresponse", 0, None, 0)}

\* results.metadata of the page fetched by the i-th popped request
PageItems(i, n) == [k \in 1..n |-> <<i, k>>]

Max(a, b) == IF a >= b THEN a ELSE b

(***************************************************************************)
(* Redis lock (common/redis)                                               *)
(***************************************************************************)
NoLock == [held |-> FALSE, ttl |-> 0]
Held(ttl) == [held |-> TRUE, ttl |-> ttl]

\* SET key id EX ttl XX: succeeds only when the key exists
extendLockOk(key) == locks[key].held
extendLock(key, ttl) == IF extendLockOk(key) THEN [locks EXCEPT ![key] = Held(ttl)] ELSE locks
\* SET key id EX ttl NX
acquireLockOk(key) == ~locks[key].held
acquireLock(key, ttl) == IF acquireLockOk(key) THEN [locks EXCEPT ![key] = Held(ttl)] ELSE locks
\* DEL key
releaseLock(key) == [locks EXCEPT ![key] = NoLock]

(***************************************************************************)
(* PendingRefreshTokensBySlug (models/pending-refresh-tokens-by-slug)      *)
(***************************************************************************)
Take(s, n) == SubSeq(s, 1, IF Len(s) < n THEN Len(s) ELSE n)
Drop(s, n) == SubSeq(s, (IF Len(s) < n THEN Len(s) ELSE n) + 1, Len(s))

\* add(request, prioritized): prioritized requests go to the head
pendingAdd(b, r, prioritized) == IF prioritized THEN <<r>> \o b ELSE Append(b, r)
\* get(count): removes and returns at most count requests from the head
pendingGet(b, n) == Take(b, n)
pendingRest(b, n) == Drop(b, n)

(***************************************************************************)
(* The BullMQ queue: jobs waiting to be run                                *)
(***************************************************************************)
Job(delay, made) == [delay |-> delay, attemptsMade |-> made]

\* queue.add(randomUUID(), {}, { delay })
addToQueue(q, delay) == Append(q, Job(delay, 0))

RemoveAt(s, i) == SubSeq(s, 1, i - 1) \o SubSeq(s, i + 1, Len(s))

(***************************************************************************)
(* One invocation of the worker function                                   *)
(***************************************************************************)
Task(r) ==
  [req |-> r, st |-> "new", res |-> NoResult,
   fetches |-> 0, pushes |-> <<>>, refreshes |-> <<>>, collUpdates |-> <<>>]

IdleWorker ==
  [pc |-> "idle", attemptsMade |-> 0, tasks |-> <<>>, next |-> 1,
   retry |-> FALSE, rateLimitExpiredIn |-> 0, metadata |-> <<>>,
   lockOps |-> <<>>, enqueued |-> <<>>, writes |-> <<>>]

Push(r, prioritized) == [req |-> r, prioritized |-> prioritized]
LockOp(op, ttl, ok) == [op |-> op, ttl |-> ttl, ok |-> ok]

Init ==
  /\ backlog = <<>>
  /\ locks = [k \in {getLockName(method)} |-> NoLock]
  /\ queue = <<>>
  /\ worker = [p \in Procs |-> IdleWorker]
  /\ orphans = <<>>
  /\ env = 0
  /\ faults = 0

W(p) == worker[p]
Key == getLockName(method)

(***************************************************************************)
(* Triggers and producers outside the worker                               *)
(***************************************************************************)
\* A producer submits a refresh request (PendingRefreshTokensBySlug.add).
ProducerPush(r) ==
  /\ env < MaxEvents
  /\ env' = env + 1
  /\ backlog' = pendingAdd(backlog, r, FALSE)
  /\ UNCHANGED <<locks, queue, worker, orphans, faults>>

\* A producer that enqueues a run only when it acquires the lock.
ProducerTrigger ==
  /\ env < MaxEvents
  /\ env' = env + 1
  /\ acquireLockOk(Key)
  /\ locks' = acquireLock(Key, lockSeconds)
  /\ queue' = addToQueue(queue, 0)
  /\ UNCHANGED <<backlog, worker, orphans, faults>>

\* Any caller of the exported addToQueue(delay = 0).
ExternalAddToQueue ==
  /\ env < MaxEvents
  /\ env' = env + 1
  /\ queue' = addToQueue(queue, 0)
  /\ UNCHANGED <<backlog, locks, worker, orphans, faults>>

\* The lock key reaches its expiry.
LockExpire ==
  /\ locks[Key].held
  /\ locks' = [locks EXCEPT ![Key] = NoLock]
  /\ UNCHANGED <<backlog, queue, worker, orphans, env, faults>>

(***************************************************************************)
(* The worker function, one step per await                                 *)
(***************************************************************************)
\* BullMQ hands a waiting job to a worker with a free slot (concurrency: 1).
Start(p, j) ==
  /\ W(p).pc = "idle"
  /\ j \in 1..Len(queue)
  /\ worker' = [worker EXCEPT ![p] = [IdleWorker EXCEPT !.pc = "get", !.attemptsMade = queue[j].attemptsMade]]
  /\ queue' = RemoveAt(queue, j)
  /\ UNCHANGED <<backlog, locks, orphans, env, faults>>

\* mutant: the empty check never fires
noMoreSlugsNever(refreshTokensBySlug) == FALSE

\* if (_.isEmpty(refreshTokensBySlug))
noMoreSlugs(refreshTokensBySlug) == Len(refreshTokensBySlug) = 0

\* const refreshTokensBySlug = await pendingRefreshTokensBySlug.get(countTotal)
Get(p) ==
  /\ W(p).pc = "get"
  /\ LET refreshTokensBySlug == pendingGet(backlog, countTotal) IN
       /\ backlog' = pendingRest(backlog, countTotal)
       /\ worker' = [worker EXCEPT ![p] =
            [@ EXCEPT !.pc = IF noMoreSlugs(refreshTokensBySlug) THEN "release" ELSE "fanout",
                      !.tasks = [i \in 1..Len(refreshTokensBySlug) |-> Task(refreshTokensBySlug[i])],
                      !.next = 1,
                      !.retry = FALSE,
                      !.rateLimitExpiredIn = 0,
                      !.metadata = <<>>]]
  /\ UNCHANGED <<locks, queue, orphans, env, faults>>

\* If no more collection slugs, release lock
ReleaseEmpty(p) ==
  /\ W(p).pc = "release"
  /\ locks' = releaseLock(Key)
  /\ worker' = [worker EXCEPT ![p] =
       [@ EXCEPT !.pc = "done", !.lockOps = Append(@, LockOp("release", 0, TRUE))]]
  /\ UNCHANGED <<backlog, queue, orphans, env, faults>>

\* mutant: the denylist is compared with the collection id
isDeniedByCollection(r) == r.collection = deniedContract

\* if (refreshTokenBySlug.contract == "0x0e3a...fe07") return
isDenied(r) == r.contract = deniedContract

\* The synchronous head of processSlug, run by refreshTokensBySlug.map in order.
Launch(p) ==
  /\ W(p).pc = "fanout"
  /\ W(p).next <= Len(W(p).tasks)
  /\ LET i == W(p).next
         t == W(p).tasks[i] IN
       worker' = [worker EXCEPT ![p] =
         [@ EXCEPT !.next = i + 1,
                   !.tasks[i] = IF isDenied(t.req)
                                  THEN [t EXCEPT !.st = "done"]
                                  ELSE [t EXCEPT !.st = "fetching", !.fetches = @ + 1]]]
  /\ UNCHANGED <<backlog, locks, queue, orphans, env, faults>>

Launched(p) == W(p).pc = "fanout" /\ W(p).next > Len(W(p).tasks)
Fetching(p, i) == Launched(p) /\ i \in 1..Len(W(p).tasks) /\ W(p).tasks[i].st = "fetching"

\* mutant: the collection metadata update is left out
addToTokenRefreshQueueOnly(t) ==
  [t EXCEPT !.refreshes = Append(@, t.req.collection)]

\* metadataIndexFetch.addToQueue([{ kind: "full-collection", data: { method,
\* collection: refreshTokenBySlug.collection } }], true) and
\* collectionUpdatesMetadata.addToQueue(refreshTokenBySlug.contract, ...)
addToTokenRefreshQueueAndUpdateCollectionMetadata(t) ==
  [t EXCEPT !.refreshes = Append(@, t.req.collection),
            !.collUpdates = Append(@, t.req.contract)]

\* if (results.metadata.length === 0): addToTokenRefreshQueueAndUpdateCollectionMetadata
\* queues one full-collection refresh and one collection metadata update; return
EmptyMetadata(p, i, res) ==
  /\ Fetching(p, i)
  /\ res.kind = "ok" /\ res.n = 0
  /\ LET t == addToTokenRefreshQueueAndUpdateCollectionMetadata(W(p).tasks[i]) IN
       worker' = [worker EXCEPT ![p] =
         [@ EXCEPT !.tasks[i] = [t EXCEPT !.st = "done", !.res = res]]]
  /\ UNCHANGED <<backlog, locks, queue, orphans, env, faults>>

continuationRequest(r, results) ==
  RefreshTokenBySlug(r.slug, r.contract, r.collection, results.continuation)

\* if (results.continuation) { retry = true; await pendingRefreshTokensBySlug.add(..., true) }
\* metadata.push(...results.metadata)
WithContinuation(p, i, res) ==
  /\ Fetching(p, i)
  /\ res.kind = "ok" /\ res.n > 0 /\ res.continuation # None
  /\ LET r == continuationRequest(W(p).tasks[i].req, res) IN
       /\ backlog' = pendingAdd(backlog, r, TRUE)
       /\ worker' = [worker EXCEPT ![p] =
            [@ EXCEPT !.retry = TRUE,
                      !.metadata = @ \o PageItems(i, res.n),
                      !.tasks[i] = [@ EXCEPT !.st = "done", !.res = res,
                                             !.pushes = Append(@, Push(r, TRUE))]]]
  /\ UNCHANGED <<locks, queue, orphans, env, faults>>

\* no continuation: metadata.push(...results.metadata)
LastPage(p, i, res) ==
  /\ Fetching(p, i)
  /\ res.kind = "ok" /\ res.n > 0 /\ res.continuation = None
  /\ worker' = [worker EXCEPT ![p] =
       [@ EXCEPT !.metadata = @ \o PageItems(i, res.n),
                 !.tasks[i] = [@ EXCEPT !.st = "done", !.res = res]]]
  /\ UNCHANGED <<backlog, locks, queue, orphans, env, faults>>

\* mutant: the floor of 5 seconds is left out
newRateLimitExpiredInNoFloor(cur, expires_in) == Max(cur, expires_in)

\* Math.max(rateLimitExpiredIn, error.response.data.expires_in, 5)
newRateLimitExpiredIn(cur, expires_in) == Max(Max(cur, expires_in), minCooldown)

\* mutant: the request is requeued from its first page
rateLimitedRequestRestart(r) == [r EXCEPT !.continuation = None]

\* the request handed back to pendingRefreshTokensBySlug.add on a 429
rateLimitedRequest(r) == r

\* catch: error.response?.status === 429: raise the cooldown and
\* await pendingRefreshTokensBySlug.add(refreshTokenBySlug, true)
RateLimited(p, i, res) ==
  /\ Fetching(p, i)
  /\ res.kind = "429"
  /\ LET r == rateLimitedRequest(W(p).tasks[i].req) IN
       /\ backlog' = pendingAdd(backlog, r, TRUE)
       /\ worker' = [worker EXCEPT ![p] =
            [@ EXCEPT !.rateLimitExpiredIn = newRateLimitExpiredIn(@, res.expires_in),
                      !.tasks[i] = [@ EXCEPT !.st = "done", !.res = res,
                                             !.pushes = Append(@, Push(r, TRUE))]]]
  /\ UNCHANGED <<locks, queue, orphans, env, faults>>

\* catch, else branch, error.response present: full-collection refresh keyed by
\* the request's contract
OtherError(p, i, res) ==
  /\ Fetching(p, i)
  /\ res.kind = "error"
  /\ LET t == W(p).tasks[i] IN
       worker' = [worker EXCEPT ![p] =
         [@ EXCEPT !.tasks[i] = [t EXCEPT !.st = "done", !.res = res,
                                          !.refreshes = Append(@, t.req.contract)]]]
  /\ UNCHANGED <<backlog, locks, queue, orphans, env, faults>>

Pending(t) == t.st = "fetching"
PendingTasks(p) == SelectSeq(W(p).tasks, Pending)

\* catch, else branch, error.response undefined: JSON.stringify(error.response.data)
\* throws a TypeError out of processSlug; Promise.all rejects and the job fails.
NoResponseError(p, i, res) ==
  /\ Fetching(p, i)
  /\ res.kind = "noresponse"
  /\ faults < MaxFaults
  /\ faults' = faults + 1
  /\ worker' = [worker EXCEPT ![p] =
       [@ EXCEPT !.pc = "failed",
                 !.tasks[i] = [@ EXCEPT !.st = "thrown", !.res = res]]]
  /\ UNCHANGED <<backlog, locks, queue, orphans, env>>

Settled(p) ==
  /\ Launched(p)
  /\ \A i \in 1..Len(W(p).tasks) : W(p).tasks[i].st = "done"

\* await metadataIndexWrite.addToQueue(metadata.map(...))
Write(p) ==
  /\ Settled(p)
  /\ worker' = [worker EXCEPT ![p] =
       [@ EXCEPT !.pc = "decide", !.writes = Append(@, W(p).metadata)]]
  /\ UNCHANGED <<backlog, locks, queue, orphans, env, faults>>

\* metadataIndexWrite.addToQueue rejects: the worker function throws
WriteFails(p) ==
  /\ Settled(p)
  /\ faults < MaxFaults
  /\ faults' = faults + 1
  /\ worker' = [worker EXCEPT ![p] = [@ EXCEPT !.pc = "failed"]]
  /\ UNCHANGED <<backlog, locks, queue, orphans, env>>

\* mutant: any non-empty batch asks for another run
shouldRescheduleAnyBatch(w) ==
  w.rateLimitExpiredIn > 0 \/ Len(w.tasks) > 0 \/ w.retry

\* if (rateLimitExpiredIn || _.size(refreshTokensBySlug) == countTotal || retry)
shouldReschedule(w) ==
  w.rateLimitExpiredIn > 0 \/ Len(w.tasks) = countTotal \/ w.retry

\* mutant: the lock is extended without the cooldown
lockTtlFlat(rateLimitExpiredIn) == lockSeconds

\* extendLock(getLockName(method), 60 * 5 + rateLimitExpiredIn)
lockTtl(rateLimitExpiredIn) == lockSeconds + rateLimitExpiredIn
\* addToQueue(rateLimitExpiredIn * 1000)
nextDelay(rateLimitExpiredIn) == rateLimitExpiredIn * 1000
\* mutant: the next run is enqueued whatever extendLock answered
enqueueAfterExtendAlways(extended) == TRUE

\* if (await extendLock(...)) { await addToQueue(...) }
enqueueAfterExtend(extended) == extended

Decide(p) ==
  /\ W(p).pc = "decide"
  /\ IF shouldReschedule(W(p))
       THEN LET ttl == lockTtl(W(p).rateLimitExpiredIn)
                ok == extendLockOk(Key) IN
              /\ locks' = extendLock(Key, ttl)
              /\ worker' = [worker EXCEPT ![p] =
                   [@ EXCEPT !.pc = IF enqueueAfterExtend(ok) THEN "enqueue" ELSE "done",
                             !.lockOps = Append(@, LockOp("extend", ttl, ok))]]
       ELSE /\ locks' = releaseLock(Key)
            /\ worker' = [worker EXCEPT ![p] =
                 [@ EXCEPT !.pc = "done", !.lockOps = Append(@, LockOp("release", 0, TRUE))]]
  /\ UNCHANGED <<backlog, queue, orphans, env, faults>>

Enqueue(p) ==
  /\ W(p).pc = "enqueue"
  /\ LET delay == nextDelay(W(p).rateLimitExpiredIn) IN
       /\ queue' = addToQueue(queue, delay)
       /\ worker' = [worker EXCEPT ![p] =
            [@ EXCEPT !.pc = "done", !.enqueued = Append(@, delay)]]
  /\ UNCHANGED <<backlog, locks, orphans, env, faults>>

\* queue.add rejects inside addToQueue: the worker function throws after the
\* lock was extended
EnqueueFails(p) ==
  /\ W(p).pc = "enqueue"
  /\ faults < MaxFaults
  /\ faults' = faults + 1
  /\ worker' = [worker EXCEPT ![p] = [@ EXCEPT !.pc = "failed"]]
  /\ UNCHANGED <<backlog, locks, queue, orphans, env>>

\* The worker function returned: BullMQ completes the job and frees the slot.
Complete(p) ==
  /\ W(p).pc = "done"
  /\ worker' = [worker EXCEPT ![p] = IdleWorker]
  /\ UNCHANGED <<backlog, locks, queue, orphans, env, faults>>

OrphansOf(ts) == [k \in 1..Len(ts) |-> ts[k].req]

\* mutant: a failed job is retried without limit
retryJobForever(q, attemptsMade) == Append(q, Job(backoffDelay, attemptsMade + 1))

\* defaultJobOptions: attempts 10, fixed backoff of 5000 ms
retryJob(q, attemptsMade) ==
  IF attemptsMade + 1 < attempts
    THEN Append(q, Job(backoffDelay, attemptsMade + 1))
    ELSE q

\* The worker function threw: BullMQ fails the job, retries it while attempts
\* remain, and frees the slot. Tasks still in flight keep running detached.
Fail(p) ==
  /\ W(p).pc = "failed"
  /\ queue' = retryJob(queue, W(p).attemptsMade)
  /\ orphans' = orphans \o OrphansOf(PendingTasks(p))
  /\ worker' = [worker EXCEPT ![p] = IdleWorker]
  /\ UNCHANGED <<backlog, locks, env, faults>>

\* A detached processSlug of a failed invocation runs to its end: only its
\* pushes to the backlog are visible outside the dead closure.
OrphanSettles(k, res) ==
  /\ k \in 1..Len(orphans)
  /\ backlog' =
       IF res.kind = "ok" /\ res.n > 0 /\ res.continuation # None
         THEN pendingAdd(backlog, continuationRequest(orphans[k], res), TRUE)
       ELSE IF res.kind = "429"
         THEN pendingAdd(backlog, rateLimitedRequest(orphans[k]), TRUE)
       ELSE backlog
  /\ orphans' = RemoveAt(orphans, k)
  /\ UNCHANGED <<locks, queue, worker, env, faults>>

\* One worker process deployed.
Solo == {"w1"}

\* The fetch of the i-th popped request of p settles with res and processSlug
\* handles it without throwing.
FetchReturns(p, i, res) ==
  \/ EmptyMetadata(p, i, res)
  \/ WithContinuation(p, i, res)
  \/ LastPage(p, i, res)
  \/ RateLimited(p, i, res)
  \/ OtherError(p, i, res)

\* Producers, triggers and lock expiry.
Environment ==
  \/ \E r \in NewRequests : ProducerPush(r)
  \/ ProducerTrigger
  \/ ExternalAddToQueue
  \/ LockExpire

\* The steps of a worker function that does not throw.
Invocation(p) ==
  \/ \E j \in 1..(MaxEvents + 1) : Start(p, j)
  \/ Get(p)
  \/ ReleaseEmpty(p)
  \/ Launch(p)
  \/ \E i \in 1..countTotal, res \in Results : FetchReturns(p, i, res)
  \/ Write(p)
  \/ Decide(p)
  \/ Enqueue(p)
  \/ Complete(p)

\* The steps by which a worker function throws, and what follows from it.
Faults(p) ==
  \/ \E i \in 1..countTotal, res \in Results : NoResponseError(p, i, res)
  \/ WriteFails(p)
  \/ EnqueueFails(p)
  \/ Fail(p)
  \/ \E k \in 1..(MaxFaults * countTotal), res \in Results : OrphanSettles(k, res)

\* One worker process; no worker function throws.
NextSteady == Environment \/ \E p \in Solo : Invocation(p)

SpecSteady == Init /\ [][NextSteady]_vars

\* One worker process, with worker functions that throw.
Next == Environment \/ \E p \in Solo : (Invocation(p) \/ Faults(p))

Spec == Init /\ [][Next]_vars

\* Several worker processes on the same queue, backlog and lock.
NextMulti == Environment \/ \E p \in Procs : Invocation(p)

SpecMulti == Init /\ [][NextMulti]_vars

(***************************************************************************)
(* A chain of self-enqueued runs: a producer filled the backlog, took the   *)
(* lock and enqueued one run; nothing else is pushed, the lock does not     *)
(* expire, and the provider answers without rate limit or continuation.     *)
(***************************************************************************)
BacklogsUpTo(n) == UNION {[1..k -> NewRequests] : k \in 0..n}

InitChain ==
  /\ backlog \in BacklogsUpTo(MaxBacklog)
  /\ locks = [k \in {getLockName(method)} |-> Held(lockSeconds)]
  /\ queue = addToQueue(<<>>, 0)
  /\ worker = [p \in Procs |-> IdleWorker]
  /\ orphans = <<>>
  /\ env = 0
  /\ faults = 0

ChainResults == {res \in Results : res.kind \in {"ok", "error"} /\ res.continuation = None}

ChainFetchReturns(p, i, res) ==
  \/ EmptyMetadata(p, i, res)
  \/ LastPage(p, i, res)
  \/ OtherError(p, i, res)

ChainInvocation(p) ==
  \/ \E j \in 1..(MaxEvents + 1) : Start(p, j)
  \/ Get(p)
  \/ ReleaseEmpty(p)
  \/ Launch(p)
  \/ \E i \in 1..countTotal, res \in ChainResults : ChainFetchReturns(p, i, res)
  \/ Write(p)
  \/ Decide(p)
  \/ Enqueue(p)
  \/ Complete(p)

NextChain == \E p \in Solo : ChainInvocation(p)

\* BullMQ runs every waiting job and every await of the worker settles.
SpecChain == InitChain /\ [][NextChain]_vars /\ WF_vars(NextChain)

(***************************************************************************)
(* A job that already failed some of its attempts is run again, with        *)
(* worker functions that throw. The lock is held and does not expire, no    *)
(* producer pushes, and the fetches an invocation awaits end without rate   *)
(* limit or continuation.                                                   *)
(***************************************************************************)
InitFatal ==
  /\ backlog \in BacklogsUpTo(countTotal)
  /\ locks = [k \in {getLockName(method)} |-> Held(lockSeconds)]
  /\ \E a \in 0..(attempts - 1) : queue = <<Job(IF a = 0 THEN 0 ELSE backoffDelay, a)>>
  /\ worker = [p \in Procs |-> IdleWorker]
  /\ orphans = <<>>
  /\ env = 0
  /\ faults = 0

\* The ways a worker function throws, and the detached fetches left behind.
FatalFaults(p) ==
  \/ \E i \in 1..countTotal, res \in Results : NoResponseError(p, i, res)
  \/ WriteFails(p)
  \/ EnqueueFails(p)
  \/ Fail(p)
  \/ \E k \in 1..(MaxFaults * countTotal), res \in Results : OrphanSettles(k, res)

NextFatal == \E p \in Solo : (ChainInvocation(p) \/ FatalFaults(p))

SpecFatal == InitFatal /\ [][NextFatal]_vars

(***************************************************************************)
(* Producers that push a request and enqueue a run only when they acquire   *)
(* the lock, next to one worker process whose functions do not throw.       *)
(***************************************************************************)
\* pendingRefreshTokensBySlug.add(r); if (await acquireLock(...)) addToQueue()
ProducerSubmit(r) ==
  /\ env < MaxEvents
  /\ env' = env + 1
  /\ backlog' = pendingAdd(backlog, r, FALSE)
  /\ locks' = acquireLock(Key, lockSeconds)
  /\ queue' = IF acquireLockOk(Key) THEN addToQueue(queue, 0) ELSE queue
  /\ UNCHANGED <<worker, orphans, faults>>

NextProducers ==
  \/ \E r \in NewRequests : ProducerSubmit(r)
  \/ \E p \in Solo : Invocation(p)

\* BullMQ runs every waiting job and every await of the worker settles.
SpecProducers ==
  Init /\ [][NextProducers]_vars /\ WF_vars(\E p \in Solo : Invocation(p))

(***************************************************************************)
(* Properties                                                              *)
(***************************************************************************)
Idx(p) == 1..Len(W(p).tasks)
Executing(p) == W(p).pc \in {"get", "release", "fanout", "decide", "enqueue"}
Popped(p) == W(p).pc \in {"release", "fanout", "decide", "enqueue", "done", "failed"}
AfterFanout(p) == Settled(p) \/ (W(p).tasks # <<>> /\ W(p).pc \in {"decide", "enqueue", "done"})
Released == LockOp("release", 0, TRUE)
Contributed(p, i) == \E k \in 1..Len(W(p).metadata) : W(p).metadata[k][1] = i
SetMax(S) == CHOOSE x \in S : \A y \in S : y <= x

\* C1: at most one invocation of the worker's batch logic executes at any
\* time, whatever calls addToQueue and however many worker processes run.
C1_NoOverlap == Cardinality({p \in Procs : Executing(p)}) <= 1

C2_EmptyState ==
  \A p \in Procs :
    (Popped(p) /\ W(p).tasks = <<>>) =>
      /\ W(p).pc \in {"release", "done"}
      /\ W(p).writes = <<>>
      /\ W(p).enqueued = <<>>
      /\ W(p).metadata = <<>>
      /\ W(p).lockOps = IF W(p).pc = "done" THEN <<Released>> ELSE <<>>
C2_EmptyStep ==
  \A p \in Procs :
    (W(p).pc = "release" /\ worker'[p] # worker[p]) =>
      /\ worker'[p].pc = "done"
      /\ locks'[Key] = NoLock
      /\ backlog' = backlog /\ queue' = queue
\* C2: an invocation whose pop returns no request releases the lock, writes
\* no metadata, fetches, pushes and dispatches nothing, and enqueues no run.
C2_DrainTermination == []C2_EmptyState /\ [][C2_EmptyStep]_vars
C2_Witness ==
  W("w1").pc = "done" /\ W("w1").tasks = <<>> /\ W("w1").lockOps = <<Released>>

\* C3: a fetch that fails with a non-rate-limit error, with or without an HTTP
\* response, is absorbed by processSlug: it never throws out of the fan-out.
C3_Isolation ==
  \A p \in Procs : \A i \in Idx(p) :
    W(p).tasks[i].res.kind \in {"error", "noresponse"} =>
      W(p).tasks[i].st = "done"

\* C4: whenever a fetch returns a continuation, exactly one request is pushed
\* back, prioritized, with the same slug, contract and collection and the
\* continuation just returned.
C4_ContinuationPreserved ==
  \A p \in Procs : \A i \in Idx(p) :
    LET t == W(p).tasks[i] IN
      (t.st = "done" /\ t.res.kind = "ok" /\ t.res.continuation # None) =>
        t.pushes = <<Push([slug |-> t.req.slug, contract |-> t.req.contract,
                           collection |-> t.req.collection,
                           continuation |-> t.res.continuation], TRUE)>>

RateLimitedTasks(p) == {i \in Idx(p) : W(p).tasks[i].res.kind = "429"}
ExpectedCooldown(p) ==
  IF RateLimitedTasks(p) = {} THEN 0
  ELSE SetMax({5} \cup {W(p).tasks[i].res.expires_in : i \in RateLimitedTasks(p)})
\* C5: at the end of the fan-out the cooldown is 0 when no request was
\* rate-limited, and otherwise the largest reported expires_in, floored at 5.
C5_RateLimitFloor ==
  \A p \in Procs : AfterFanout(p) => W(p).rateLimitExpiredIn = ExpectedCooldown(p)
C5_Witness ==
  /\ W("w1").pc = "decide"
  /\ \E i, j \in Idx("w1") :
       /\ W("w1").tasks[i].res = Result("429", 0, None, 30)
       /\ W("w1").tasks[j].res = Result("429", 0, None, 2)
  /\ W("w1").rateLimitExpiredIn = 30

DeniedReq(r) == r.contract = "0x0e3a2a1f2146d86a604adc220b4967a898d7fe07"
C6_DeniedState ==
  \A p \in Procs : \A i \in Idx(p) :
    LET t == W(p).tasks[i] IN
      DeniedReq(t.req) =>
        /\ t.st \in {"new", "done"}
        /\ t.res = NoResult
        /\ t.fetches = 0 /\ t.pushes = <<>>
        /\ t.refreshes = <<>> /\ t.collUpdates = <<>>
        /\ ~Contributed(p, i)
C6_DeniedStep ==
  \A p \in Procs : \A i \in Idx(p) :
    (DeniedReq(W(p).tasks[i].req) /\ W(p).tasks[i].st = "new"
       /\ worker'[p].tasks[i] # W(p).tasks[i]) =>
      /\ worker'[p].tasks[i] = [W(p).tasks[i] EXCEPT !.st = "done"]
      /\ worker'[p].rateLimitExpiredIn = W(p).rateLimitExpiredIn
      /\ worker'[p].retry = W(p).retry
      /\ worker'[p].metadata = W(p).metadata
      /\ backlog' = backlog /\ queue' = queue /\ locks' = locks
\* C6: a popped request with the denylisted contract is never fetched, pushed
\* back or dispatched, and its processSlug changes neither the cooldown, the
\* retry flag nor the aggregate metadata.
C6_Denylist == []C6_DeniedState /\ [][C6_DeniedStep]_vars
C6_Witness ==
  /\ W("w1").pc = "done"
  /\ \E i, j \in Idx("w1") :
       /\ DeniedReq(W("w1").tasks[i].req) /\ W("w1").tasks[i].st = "done"
       /\ W("w1").tasks[j].res.kind = "ok" /\ Contributed("w1", j)

ExtendFailed(p) == \E k \in 1..Len(W(p).lockOps) : W(p).lockOps[k].op = "extend" /\ ~W(p).lockOps[k].ok
C7_FailedState ==
  \A p \in Procs :
    ExtendFailed(p) =>
      /\ W(p).pc = "done"
      /\ W(p).enqueued = <<>>
      /\ Len(W(p).lockOps) = 1
C7_FailedStep ==
  \A p \in Procs :
    (W(p).pc = "decide" /\ ExtendFailed(p)') =>
      /\ worker'[p].pc = "done"
      /\ locks' = locks
      /\ queue' = queue
\* C7: when the reschedule condition holds and extendLock answers false, the
\* invocation enqueues nothing and does not release: the lock stays as
\* extendLock left it.
C7_LockContention == []C7_FailedState /\ [][C7_FailedStep]_vars
C7_Witness ==
  /\ W("w1").pc = "done"
  /\ W("w1").rateLimitExpiredIn > 0
  /\ ExtendFailed("w1")
  /\ ~locks[Key].held

ReturnedContinuation(p) ==
  \E i \in Idx(p) : W(p).tasks[i].res.kind = "ok" /\ W(p).tasks[i].res.continuation # None
\* C8: an invocation that popped requests and finished its fan-out extends
\* the lock iff cooldown > 0, or it popped batchSize requests, or some request
\* returned a continuation; otherwise it releases; never both.
C8_RescheduleDecision ==
  \A p \in Procs :
    (W(p).pc = "done" /\ W(p).tasks # <<>>) =>
      /\ Len(W(p).lockOps) = 1
      /\ W(p).lockOps[1].op = "extend" <=>
           \/ W(p).rateLimitExpiredIn > 0
           \/ Len(W(p).tasks) = countTotal
           \/ ReturnedContinuation(p)

ExtendedOk(p) == LockOp("extend", 300 + W(p).rateLimitExpiredIn, TRUE)
C9_RescheduleState ==
  \A p \in Procs :
    /\ \A k \in 1..Len(W(p).lockOps) :
         W(p).lockOps[k].op = "extend" => W(p).lockOps[k].ttl = 300 + W(p).rateLimitExpiredIn
    /\ W(p).pc = "enqueue" => W(p).lockOps = <<ExtendedOk(p)>> /\ W(p).enqueued = <<>>
    /\ W(p).enqueued # <<>> =>
         /\ W(p).lockOps = <<ExtendedOk(p)>>
         /\ W(p).enqueued = <<1000 * W(p).rateLimitExpiredIn>>
         /\ 1000 * W(p).lockOps[1].ttl - W(p).enqueued[1] = 300000
    /\ (W(p).pc = "done" /\ W(p).lockOps = <<ExtendedOk(p)>>) => Len(W(p).enqueued) = 1
C9_RescheduleStep ==
  \A p \in Procs :
    /\ (W(p).pc = "decide" /\ worker'[p].pc = "enqueue") =>
         /\ locks[Key].held
         /\ locks'[Key] = [held |-> TRUE, ttl |-> 300 + W(p).rateLimitExpiredIn]
         /\ queue' = queue
    /\ (W(p).pc = "enqueue" /\ worker'[p].pc = "done") =>
         /\ queue' = Append(queue, [delay |-> 1000 * W(p).rateLimitExpiredIn, attemptsMade |-> 0])
         /\ locks' = locks
\* C9: a reschedule extends the lock with TTL 300 + cooldown before anything
\* is enqueued; only after a successful extend is exactly one run enqueued,
\* delayed by the cooldown (in ms), so the TTL exceeds the delay by 300 s.
C9_RescheduleOrder == []C9_RescheduleState /\ [][C9_RescheduleStep]_vars
C9_Witness ==
  /\ W("w1").pc = "done"
  /\ W("w1").rateLimitExpiredIn = 20
  /\ W("w1").lockOps = <<LockOp("extend", 320, TRUE)>>
  /\ W("w1").enqueued = <<20000>>
  /\ locks[Key] = [held |-> TRUE, ttl |-> 320]

C10_RequeuedState ==
  \A p \in Procs : \A i \in Idx(p) :
    LET t == W(p).tasks[i] IN
      t.res.kind = "429" =>
        /\ t.st = "done"
        /\ t.fetches = 1
        /\ t.pushes = <<Push(t.req, TRUE)>>
        /\ t.refreshes = <<>> /\ t.collUpdates = <<>>
        /\ ~Contributed(p, i)
C10_RequeuedStep ==
  \A p \in Procs : \A i \in Idx(p) :
    (W(p).tasks[i].st = "fetching" /\ i \in 1..Len(worker'[p].tasks)
       /\ worker'[p].tasks[i].res.kind = "429") =>
      /\ backlog' = <<W(p).tasks[i].req>> \o backlog
      /\ worker'[p].metadata = W(p).metadata
      /\ worker'[p].retry = W(p).retry
\* C10: a rate-limited (429) request is pushed back exactly once, prioritized
\* and unchanged (continuation included); nothing is dispatched downstream for
\* it and none of the aggregate metadata comes from it.
C10_RateLimitedRequeue == []C10_RequeuedState /\ [][C10_RequeuedStep]_vars
C10_Witness ==
  \E i \in Idx("w1") :
    LET t == W("w1").tasks[i] IN
      /\ t.res.kind = "429"
      /\ t.req.continuation = "abc"
      /\ t.pushes = <<Push(t.req, TRUE)>>
      /\ backlog # <<>> /\ backlog[1] = t.req

ScenarioB(p) ==
  /\ Len(W(p).tasks) = 1
  /\ W(p).tasks[1].st = "done"
  /\ W(p).tasks[1].res = Result("ok", 0, "abc", 0)
\* C11: Scenario B. A single popped request whose fetch returns an empty page
\* with continuation "abc" appends no metadata, is pushed back with
\* continuation "abc", sets the retry flag, dispatches no full-collection
\* refresh and no collection metadata update, and is followed by a reschedule
\* (extend, then a run enqueued with delay 0).
C11_ScenarioB ==
  \A p \in Procs :
    ScenarioB(p) =>
      LET t == W(p).tasks[1] IN
        /\ W(p).metadata = <<>>
        /\ t.pushes = <<Push([slug |-> t.req.slug, contract |-> t.req.contract,
                              collection |-> t.req.collection,
                              continuation |-> "abc"], TRUE)>>
        /\ W(p).retry
        /\ t.refreshes = <<>> /\ t.collUpdates = <<>>
        /\ W(p).pc = "done" =>
             /\ Len(W(p).lockOps) = 1 /\ W(p).lockOps[1].op = "extend"
             /\ W(p).lockOps[1].ok => W(p).enqueued = <<0>>

Unresolvable(t) == t.res = Result("ok", 0, None, 0)
C12_UnresolvableState ==
  \A p \in Procs : \A i \in Idx(p) :
    LET t == W(p).tasks[i] IN
      Unresolvable(t) =>
        /\ t.st = "done"
        /\ t.refreshes = <<t.req.collection>>
        /\ t.collUpdates = <<t.req.contract>>
        /\ t.pushes = <<>>
        /\ ~Contributed(p, i)
C12_UnresolvableStep ==
  \A p \in Procs : \A i \in Idx(p) :
    (W(p).tasks[i].st = "fetching" /\ i \in 1..Len(worker'[p].tasks)
       /\ Unresolvable(worker'[p].tasks[i])) =>
      /\ backlog' = backlog
      /\ worker'[p].retry = W(p).retry
      /\ worker'[p].rateLimitExpiredIn = W(p).rateLimitExpiredIn
      /\ worker'[p].metadata = W(p).metadata
\* C12: a fetch that returns an empty page and no continuation dispatches
\* exactly one full-collection refresh and exactly one collection metadata
\* update for its request, pushes nothing back, and changes neither the retry
\* flag nor the cooldown.
C12_UnresolvableSlug == []C12_UnresolvableState /\ [][C12_UnresolvableStep]_vars
C12_Witness ==
  /\ W("w1").pc = "done"
  /\ Len(W("w1").tasks) = 1
  /\ Unresolvable(W("w1").tasks[1])
  /\ W("w1").tasks[1].refreshes = <<"0xbc4c:0:9999">>
  /\ W("w1").tasks[1].collUpdates = <<"0xbc4c">>
  /\ W("w1").lockOps = <<Released>>
  /\ backlog = <<>>

FetchFailed(t) == t.res.kind \in {"error", "noresponse"}
\* C13: a request whose fetch failed with a non-rate-limit error is not pushed
\* back, has exactly one full-collection refresh dispatched for its contract,
\* contributes no metadata, and leaves the cooldown and the retry flag to the
\* other requests of the invocation.
C13_OtherFailure ==
  \A p \in Procs : \A i \in Idx(p) :
    LET t == W(p).tasks[i] IN
      FetchFailed(t) =>
        /\ t.pushes = <<>>
        /\ t.refreshes = <<t.req.contract>>
        /\ t.collUpdates = <<>>
        /\ ~Contributed(p, i)
        /\ W(p).retry <=> \E j \in Idx(p) : W(p).tasks[j].pushes # <<>> /\ W(p).tasks[j].res.kind = "ok"
        /\ W(p).rateLimitExpiredIn > 0 <=> RateLimitedTasks(p) # {}

Range(f) == {f[k] : k \in 1..Len(f)}
SuccessfulPage(p, i) == W(p).tasks[i].res.kind = "ok" /\ W(p).tasks[i].st = "done"
SuccessfulItems(p) ==
  UNION {{<<i, k>> : k \in 1..W(p).tasks[i].res.n} : i \in {j \in Idx(p) : SuccessfulPage(p, j)}}
AllLastPages(p) ==
  \A i \in Idx(p) :
    /\ W(p).tasks[i].res.kind = "ok"
    /\ W(p).tasks[i].res.n > 0
    /\ W(p).tasks[i].res.continuation = None
\* C14: an invocation that popped at least one request calls the metadata
\* write pipeline exactly once: no fan-out task stops it from getting there,
\* the call comes after every task settled and before any extend or release,
\* and the list sent holds every item of every successfully fetched page.
\* When fewer requests than the batch size were popped and all returned a
\* last, non-empty page, the lock is then released.
C14_AggregateDispatch ==
  \A p \in Procs :
    /\ \A i \in Idx(p) : W(p).tasks[i].st # "thrown"
    /\ Len(W(p).writes) <= 1
    /\ W(p).writes # <<>> =>
         /\ \A i \in Idx(p) : W(p).tasks[i].st = "done"
         /\ W(p).writes = <<W(p).metadata>>
         /\ Range(W(p).metadata) = SuccessfulItems(p)
         /\ Len(W(p).metadata) = Cardinality(SuccessfulItems(p))
    /\ (W(p).tasks # <<>> /\ W(p).pc \in {"decide", "enqueue", "done"}) => Len(W(p).writes) = 1
    /\ (W(p).tasks # <<>> /\ W(p).lockOps # <<>>) => Len(W(p).writes) = 1
    /\ (W(p).pc = "decide" /\ W(p).tasks # <<>>) => W(p).lockOps = <<>> /\ W(p).enqueued = <<>>
    /\ (W(p).pc = "done" /\ W(p).tasks # <<>> /\ Len(W(p).tasks) < countTotal /\ AllLastPages(p)) =>
         W(p).lockOps = <<Released>> /\ W(p).enqueued = <<>>

\* C15: whatever the order in which the fetches of one invocation complete,
\* the reschedule step reads a cooldown equal to the largest reported
\* expires_in floored at 5 (0 without a rate limit), a retry flag that is true
\* iff some request returned a continuation, and an aggregate holding every
\* item of every successful page exactly once.
C15_InterleavingIndependence ==
  \A p \in Procs :
    (W(p).pc = "decide" /\ W(p).tasks # <<>>) =>
      /\ W(p).rateLimitExpiredIn = ExpectedCooldown(p)
      /\ W(p).retry <=> ReturnedContinuation(p)
      /\ Range(W(p).metadata) = SuccessfulItems(p)
      /\ Len(W(p).metadata) = Cardinality(SuccessfulItems(p))

Idle(p) == W(p).pc = "idle"
Runs(p) == Len(queue) + (IF Executing(p) THEN 1 ELSE 0)
ChainEnded == queue = <<>> /\ Idle("w1") /\ backlog = <<>> /\ ~locks[Key].held
C16_ChainState ==
  LET w == W("w1") IN
    /\ Runs("w1") <= 1
    /\ (Popped("w1") /\ w.tasks = <<>>) => queue = <<>> /\ backlog = <<>>
    /\ (w.pc = "done" /\ w.tasks = <<>>) =>
         w.lockOps = <<Released>> /\ w.enqueued = <<>> /\ ~locks[Key].held
    /\ (w.pc = "done" /\ Len(w.tasks) = countTotal) =>
         /\ w.lockOps = <<LockOp("extend", 300, TRUE)>>
         /\ w.enqueued = <<0>>
         /\ queue = <<Job(0, 0)>>
    /\ (w.pc = "done" /\ Len(w.tasks) \in 1..(countTotal - 1)) =>
         /\ w.lockOps = <<Released>> /\ w.enqueued = <<>>
         /\ queue = <<>> /\ backlog = <<>> /\ ~locks[Key].held
\* C16: in a chain with no producer, no failed extend, no rate limit and no
\* continuation, a run that pops batchSize requests enqueues exactly one next
\* run, also when the backlog is then empty; a run that pops fewer, or
\* nothing, releases the lock and enqueues nothing; and the chain always
\* ends, with nothing queued, the backlog empty and the lock released.
C16_ChainTermination == []C16_ChainState /\ <>[]ChainEnded
C16_Witness ==
  /\ W("w1").pc = "done"
  /\ Len(W("w1").tasks) = countTotal
  /\ backlog = <<>>
  /\ queue = <<Job(0, 0)>>
  /\ W("w1").lockOps = <<LockOp("extend", 300, TRUE)>>

Threw(p) == W(p).pc = "failed"
\* C17: an invocation that throws after popping has neither extended nor
\* released the lock and has enqueued no run itself.
C17_FatalFailure ==
  \A p \in Procs : Threw(p) => W(p).lockOps = <<>> /\ W(p).enqueued = <<>>
C17_ThrewState ==
  /\ \A p \in Procs :
       /\ Threw(p) => W(p).enqueued = <<>>
       /\ (Threw(p) /\ W(p).writes = <<>>) => W(p).lockOps = <<>>
       /\ W(p).attemptsMade < 10
  /\ \A j \in 1..Len(queue) :
       /\ queue[j].attemptsMade < 10
       /\ queue[j].attemptsMade > 0 => queue[j].delay = 5000
C17_ThrewStep ==
  \A p \in Procs :
    (Threw(p) /\ worker'[p] # worker[p]) =>
      /\ worker'[p].pc = "idle"
      /\ queue' = IF W(p).attemptsMade + 1 < 10
                    THEN Append(queue, [delay |-> 5000, attemptsMade |-> W(p).attemptsMade + 1])
                    ELSE queue
      /\ locks' = locks /\ backlog' = backlog
\* C17 as amended: an invocation that throws in the fan-out or at the metadata
\* write has neither extended nor released the lock; no throwing invocation
\* enqueues a run itself; its job is put back by the job runner alone, delayed
\* by 5000 ms, while fewer than 10 attempts were made, and not after the 10th.
C17_FatalFailureAmended == []C17_ThrewState /\ [][C17_ThrewStep]_vars
C17_Witness ==
  /\ Threw("w1")
  /\ W("w1").attemptsMade = 9
  /\ W("w1").tasks # <<>>
  /\ \A i \in Idx("w1") : W("w1").tasks[i].st = "done"
  /\ W("w1").writes = <<>>
  /\ queue = <<>>

RECURSIVE PushCount(_, _)
PushCount(ts, n) == IF n = 0 THEN 0 ELSE Len(ts[n].pushes) + PushCount(ts, n - 1)
OwesPush(t) == t.res.kind = "429" \/ (t.res.kind = "ok" /\ t.res.continuation # None)
\* C18: every popped request causes at most one push back to the backlog: one
\* when it was rate-limited or returned a continuation, none otherwise; an
\* invocation pushes no more requests than it popped, all of them prioritized.
C18_NoBacklogGrowth ==
  \A p \in Procs :
    /\ \A i \in Idx(p) :
         LET t == W(p).tasks[i] IN
           /\ Len(t.pushes) <= 1
           /\ \A k \in 1..Len(t.pushes) : t.pushes[k].prioritized
           /\ t.st = "done" => Len(t.pushes) = IF OwesPush(t) THEN 1 ELSE 0
    /\ PushCount(W(p).tasks, Len(W(p).tasks)) <= Len(W(p).tasks)

ReleasedBy(w) == \E k \in 1..Len(w.lockOps) : w.lockOps[k] = Released
\* C19: at the step by which an invocation releases the lock, it has pushed
\* no request back and popped fewer than batchSize requests, and, no producer
\* having pushed since its pop, the backlog is empty.
C19_ReleaseStep ==
  \A p \in Procs :
    (~ReleasedBy(W(p)) /\ ReleasedBy(worker'[p])) =>
      /\ PushCount(W(p).tasks, Len(W(p).tasks)) = 0
      /\ Len(W(p).tasks) < countTotal
      /\ backlog' = <<>>
C19_ReleaseImpliesDrained == [][C19_ReleaseStep]_vars

AtRest == queue = <<>> /\ \A p \in Procs : Idle(p)
\* C20: with producers that push and then enqueue a run only if the lock is
\* absent, no pushed request is left behind: whenever no run is waiting or
\* executing, the backlog is empty.
C20_NoStrandedWork == AtRest => backlog = <<>>

====
